---------------------------- MODULE Spec2Model ----------------------------
(***************************************************************************)
(* A model of the SomaliJobs scraper (src/scraper.py): the seen-jobs       *)
(* tracker, the page fetcher with retry, the field extraction chain of     *)
(* scrape_job_page and the main loop of scrape_somalijobs.                 *)
(*                                                                         *)
(* Text is modelled as a sequence of characters, a character being a       *)
(* string that names it ("a", " ", "\n", "nbsp", ...).  A URL is the       *)
(* sequence of its path segments.  The clock counts days; an ISO-8601      *)
(* timestamp is the zero-padded digit string of the clock value, and       *)
(* timestamps are compared the way Python compares strings.                *)
(*                                                                         *)
(* Three specifications share the definitions: SpecTracker (the tracker    *)
(* called through its methods in any order), SpecPage (scrape_job_page     *)
(* on one document, strategy by strategy) and Spec (runs of                *)
(* scrape_somalijobs, one process after the other).                        *)
(***************************************************************************)
EXTENDS Integers, Sequences, FiniteSets, TLC

VARIABLES
    store,      \* the persisted seen_jobs.json file
    now,        \* the wall clock, datetime.now(), in days
    ticks,      \* how many times the clock advanced
    pc,         \* where the process is
    seen,       \* SeenTracker.seen, the in-memory mapping
    op,         \* the tracker call that just returned and its result, until the caller goes on
    markTime,   \* url -> clock value of its mark_seen in this process, or NoTime
    savedMark,  \* url -> clock value of its last mark_seen that save() persisted
    doc,        \* scrape_job_page: the parsed document
    job,        \* scrape_job_page: the record being filled
    stage,      \* scrape_job_page: the strategy that runs next
    all_urls,   \* scrape_somalijobs: what collect_job_urls returned
    new_urls,   \* scrape_somalijobs: what filter_new left of it
    idx,        \* scrape_somalijobs: the position in urls_to_scrape of the URL at hand
    attempt,    \* fetch_page: the attempts made in the latest call
    pauses,     \* fetch_page: the time.sleep(3) calls of the latest call
    delays,     \* scrape_somalijobs: the time.sleep(REQUEST_DELAY) calls of this run
    jobs,       \* scrape_somalijobs: the records emitted so far
    marked,     \* the URLs this run passed to mark_seen, in order
    saves,      \* the save() calls of this run
    runs        \* the processes started so far

trackerVars == <<store, now, ticks, pc, seen, op, markTime, savedMark>>
pageVars == <<doc, job, stage>>
runVars == <<all_urls, new_urls, idx, attempt, pauses, delays, jobs, marked, saves, runs>>

vars == <<trackerVars, pageVars, runVars>>

--------------------------------------------------------------------------
(* Bounds of the model *)

MaxTicks == 3
StartTime == 200
MaxUrls == 3

(* Program constants *)

RETENTION_DAYS == 60

--------------------------------------------------------------------------
(* Text: a str is a sequence of characters *)

UpperChars == <<"A", "B", "C", "D", "E", "F", "G", "H", "I", "J", "K", "L", "M",
                "N", "O", "P", "Q", "R", "S", "T", "U", "V", "W", "X", "Y", "Z">>
LowerChars == <<"a", "b", "c", "d", "e", "f", "g", "h", "i", "j", "k", "l", "m",
                "n", "o", "p", "q", "r", "s", "t", "u", "v", "w", "x", "y", "z">>

IsUpper(c) == \E i \in 1..Len(UpperChars) : UpperChars[i] = c
IsLower(c) == \E i \in 1..Len(LowerChars) : LowerChars[i] = c
IsAlpha(c) == IsUpper(c) \/ IsLower(c)

LowerChar(c) ==
    IF IsUpper(c) THEN LowerChars[CHOOSE i \in 1..Len(UpperChars) : UpperChars[i] = c] ELSE c
UpperChar(c) ==
    IF IsLower(c) THEN UpperChars[CHOOSE i \in 1..Len(LowerChars) : LowerChars[i] = c] ELSE c

\* str.lower()
Lower(t) == [i \in 1..Len(t) |-> LowerChar(t[i])]

\* str.isspace() of one character: what strip() removes and \s matches.
IsSpace(c) == c \in {" ", "\t", "\n", "\r", "nbsp"}

\* The elements of t at the positions P, in order.
Pick(t, P) ==
    LET keep == SelectSeq([i \in 1..Len(t) |-> i], LAMBDA i : i \in P)
    IN  [k \in 1..Len(keep) |-> t[keep[k]]]

\* str.strip()
Strip(t) ==
    LET solid == {i \in 1..Len(t) : ~IsSpace(t[i])}
    IN  IF solid = {} THEN <<>>
        ELSE SubSeq(t, CHOOSE i \in solid : \A j \in solid : i <= j,
                       CHOOSE i \in solid : \A j \in solid : j <= i)

\* t[:n]
\* (Truncate_none: a variant that cuts nothing)
Truncate_none(t, n) == t
Truncate(t, n) == IF Len(t) <= n THEN t ELSE SubSeq(t, 1, n)

\* whether sub occurs in t at position i
OccursAt(sub, t, i) ==
    /\ i + Len(sub) - 1 <= Len(t)
    /\ \A k \in 1..Len(sub) : t[i + k - 1] = sub[k]

\* sub in t
Contains(sub, t) == \E i \in 1..(Len(t) - Len(sub) + 1) : OccursAt(sub, t, i)

\* str.split('\n'): the lines of t, empty ones included.
SplitLines(t) ==
    LET brk == {i \in 1..Len(t) : t[i] = "\n"}
        cut == SelectSeq([i \in 1..Len(t) |-> i], LAMBDA i : i \in brk)
        n   == Len(cut)
        from(k) == IF k = 1 THEN 1 ELSE cut[k - 1] + 1
        to(k)   == IF k = n + 1 THEN Len(t) ELSE cut[k] - 1
    IN  [k \in 1..(n + 1) |-> SubSeq(t, from(k), to(k))]

\* '\n'.join(lines)
RECURSIVE JoinLines(_)
JoinLines(lines) ==
    IF lines = <<>> THEN <<>>
    ELSE IF Len(lines) = 1 THEN lines[1]
    ELSE lines[1] \o <<"\n">> \o JoinLines(Tail(lines))

\* .replace(' ', ' ').replace('Â', '').replace('·', '•')
ReplaceArtifacts(t) ==
    LET sub(c) == IF c = "nbsp" THEN " " ELSE IF c = "middot" THEN "bullet" ELSE c
    IN  SelectSeq([i \in 1..Len(t) |-> sub(t[i])], LAMBDA c : c # "Acirc")

EmailOpen == <<"[", "e", "m", "a", "i", "l">>
EmailClose == <<"p", "r", "o", "t", "e", "c", "t", "e", "d", "]">>
EmailNote ==
    <<"[", "s", "e", "e", " ", "o", "r", "i", "g", "i", "n", "a", "l", " ",
      "p", "o", "s", "t", "i", "n", "g", " ", "f", "o", "r", " ",
      "e", "m", "a", "i", "l", "]">>

\* The length of the match of \[email\s*protected\] (ignoring case) that
\* starts at position i of t, or 0.
EmailMatchLen(t, i) ==
    LET n == Len(EmailOpen)
        at(sub, j) == /\ j + Len(sub) - 1 <= Len(t)
                      /\ \A k \in 1..Len(sub) : LowerChar(t[j + k - 1]) = sub[k]
    IN  IF ~at(EmailOpen, i) THEN 0
        ELSE LET gaps == {g \in 0..(Len(t) - i + 1 - n) :
                             /\ \A k \in 1..g : IsSpace(t[i + n - 1 + k])
                             /\ at(EmailClose, i + n + g)}
             IN  IF gaps = {} THEN 0
                 ELSE n + (CHOOSE g \in gaps : TRUE) + Len(EmailClose)

\* re.sub(r'\[email\s*protected\]', '[see original posting for email]', text, flags=re.I)
\* on the text from position i on: the matches are replaced from left to right.
RECURSIVE SubEmail(_, _)
SubEmail(t, i) ==
    LET starts == {s \in i..Len(t) : EmailMatchLen(t, s) > 0}
    IN  IF starts = {} THEN SubSeq(t, i, Len(t))
        ELSE LET s == CHOOSE x \in starts : \A y \in starts : x <= y
             IN  SubSeq(t, i, s - 1) \o EmailNote \o SubEmail(t, s + EmailMatchLen(t, s))

IsBlank(c) == c \in {" ", "\t"}

\* re.sub(r'[ \t]{2,}', ' ', text)
CollapseBlanks(t) ==
    LET first(i) == IsBlank(t[i]) /\ (i = 1 \/ ~IsBlank(t[i - 1]))
        inRun(i) == IsBlank(t[i]) /\ ((i > 1 /\ IsBlank(t[i - 1])) \/ (i < Len(t) /\ IsBlank(t[i + 1])))
        u == [i \in 1..Len(t) |-> IF inRun(i) THEN " " ELSE t[i]]
    IN  Pick(u, {i \in 1..Len(t) : ~inRun(i) \/ first(i)})

\* re.sub(r'\n{3,}', '\n\n', text)
CollapseNewlines(t) ==
    Pick(t, {i \in 1..Len(t) :
                ~(t[i] = "\n" /\ i > 2 /\ t[i - 1] = "\n" /\ t[i - 2] = "\n")})

\* clean_text
clean_text(text) ==
    IF text = <<>> THEN <<>>
    ELSE LET t1 == ReplaceArtifacts(text)
             t2 == SubEmail(t1, 1)
             t3 == CollapseBlanks(t2)
             t4 == CollapseNewlines(t3)
             lines == SplitLines(t4)
         IN  Strip(JoinLines([k \in 1..Len(lines) |-> Strip(lines[k])]))

--------------------------------------------------------------------------
(* Locations and countries *)

\* Location slug -> proper name, in the order of the dict literal.
LOCATION_NAMES ==
    << <<<<"m", "o", "g", "a", "d", "i", "s", "h", "u">>,
         <<"M", "o", "g", "a", "d", "i", "s", "h", "u">>>>,
       <<<<"m", "u", "q", "d", "i", "s", "h", "o">>,
         <<"M", "o", "g", "a", "d", "i", "s", "h", "u">>>>,
       <<<<"h", "a", "r", "g", "e", "i", "s", "a">>,
         <<"H", "a", "r", "g", "e", "i", "s", "a">>>>,
       <<<<"h", "a", "r", "g", "e", "y", "s", "a">>,
         <<"H", "a", "r", "g", "e", "i", "s", "a">>>>,
       <<<<"k", "i", "s", "m", "a", "y", "o">>,
         <<"K", "i", "s", "m", "a", "y", "o">>>>,
       <<<<"k", "i", "s", "m", "a", "a", "y", "o">>,
         <<"K", "i", "s", "m", "a", "y", "o">>>>,
       <<<<"b", "a", "i", "d", "o", "a">>,
         <<"B", "a", "i", "d", "o", "a">>>>,
       <<<<"b", "a", "y", "d", "h", "a", "b", "o">>,
         <<"B", "a", "i", "d", "o", "a">>>>,
       <<<<"g", "a", "r", "o", "w", "e">>,
         <<"G", "a", "r", "o", "w", "e">>>>,
       <<<<"g", "a", "r", "o", "o", "w", "e">>,
         <<"G", "a", "r", "o", "w", "e">>>>,
       <<<<"b", "o", "s", "a", "s", "o">>,
         <<"B", "o", "s", "a", "s", "o">>>>,
       <<<<"b", "o", "o", "s", "a", "a", "s", "o">>,
         <<"B", "o", "s", "a", "s", "o">>>>,
       <<<<"j", "o", "w", "h", "a", "r">>,
         <<"J", "o", "w", "h", "a", "r">>>>,
       <<<<"j", "a", "w", "h", "a", "r">>,
         <<"J", "o", "w", "h", "a", "r">>>>,
       <<<<"b", "e", "l", "e", "d", "w", "e", "y", "n", "e">>,
         <<"B", "e", "l", "e", "d", "w", "e", "y", "n", "e">>>>,
       <<<<"g", "a", "l", "k", "a", "c", "a", "y", "o">>,
         <<"G", "a", "l", "k", "a", "y", "o">>>>,
       <<<<"g", "a", "l", "k", "a", "y", "o">>,
         <<"G", "a", "l", "k", "a", "y", "o">>>>,
       <<<<"b", "e", "r", "b", "e", "r", "a">>,
         <<"B", "e", "r", "b", "e", "r", "a">>>>,
       <<<<"b", "u", "r", "a", "o">>,
         <<"B", "u", "r", "a", "o">>>>,
       <<<<"b", "u", "r", "c", "o">>,
         <<"B", "u", "r", "a", "o">>>>,
       <<<<"b", "e", "l", "e", "d", "h", "a", "w", "a">>,
         <<"B", "e", "l", "e", "d", "h", "a", "w", "a">>>>,
       <<<<"s", "h", "e", "e", "k", "h">>,
         <<"S", "h", "e", "e", "k", "h">>>>,
       <<<<"j", "i", "g", "j", "i", "g", "a">>,
         <<"J", "i", "g", "j", "i", "g", "a">>>>,
       <<<<"n", "a", "i", "r", "o", "b", "i">>,
         <<"N", "a", "i", "r", "o", "b", "i">>>>,
       <<<<"d", "j", "i", "b", "o", "u", "t", "i">>,
         <<"D", "j", "i", "b", "o", "u", "t", "i">>>>,
       <<<<"s", "o", "m", "a", "l", "i", "l", "a", "n", "d">>,
         <<"S", "o", "m", "a", "l", "i", "l", "a", "n", "d">>>>,
       <<<<"p", "u", "n", "t", "l", "a", "n", "d">>,
         <<"P", "u", "n", "t", "l", "a", "n", "d">>>>,
       <<<<"s", "o", "m", "a", "l", "i", "a">>,
         <<"S", "o", "m", "a", "l", "i", "a">>>>,
       <<<<"s", "o", "m", "a", "l", "i", "a", "-", "a", "n", "d", "-", "s", "o", "m", "a", "l", "i", "l", "a", "n", "d">>,
         <<"S", "o", "m", "a", "l", "i", "a", " ", "&", " ", "S", "o", "m", "a", "l", "i", "l", "a", "n", "d">>>>,
       <<<<"p", "u", "n", "t", "l", "a", "n", "d", "-", "s", "t", "a", "t", "e", "-", "o", "f", "-", "s", "o", "m", "a", "l", "i", "a">>,
         <<"P", "u", "n", "t", "l", "a", "n", "d", ",", " ", "S", "o", "m", "a", "l", "i", "a">>>>,
       <<<<"m", "o", "g", "a", "d", "i", "s", "c", "i", "o">>,
         <<"M", "o", "g", "a", "d", "i", "s", "h", "u">>>> >>

\* Country detection: keyword -> country, in the order of the dict literal.
COUNTRY_MAP ==
    << <<<<"m", "o", "g", "a", "d", "i", "s", "h", "u">>,
         <<"S", "o", "m", "a", "l", "i", "a">>>>,
       <<<<"h", "a", "r", "g", "e", "i", "s", "a">>,
         <<"S", "o", "m", "a", "l", "i", "a">>>>,
       <<<<"k", "i", "s", "m", "a", "y", "o">>,
         <<"S", "o", "m", "a", "l", "i", "a">>>>,
       <<<<"b", "a", "i", "d", "o", "a">>,
         <<"S", "o", "m", "a", "l", "i", "a">>>>,
       <<<<"g", "a", "r", "o", "w", "e">>,
         <<"S", "o", "m", "a", "l", "i", "a">>>>,
       <<<<"b", "o", "s", "a", "s", "o">>,
         <<"S", "o", "m", "a", "l", "i", "a">>>>,
       <<<<"j", "o", "w", "h", "a", "r">>,
         <<"S", "o", "m", "a", "l", "i", "a">>>>,
       <<<<"b", "e", "l", "e", "d", "w", "e", "y", "n", "e">>,
         <<"S", "o", "m", "a", "l", "i", "a">>>>,
       <<<<"g", "a", "l", "k", "a", "y", "o">>,
         <<"S", "o", "m", "a", "l", "i", "a">>>>,
       <<<<"b", "e", "r", "b", "e", "r", "a">>,
         <<"S", "o", "m", "a", "l", "i", "a">>>>,
       <<<<"b", "u", "r", "a", "o">>,
         <<"S", "o", "m", "a", "l", "i", "a">>>>,
       <<<<"s", "o", "m", "a", "l", "i", "l", "a", "n", "d">>,
         <<"S", "o", "m", "a", "l", "i", "a">>>>,
       <<<<"p", "u", "n", "t", "l", "a", "n", "d">>,
         <<"S", "o", "m", "a", "l", "i", "a">>>>,
       <<<<"s", "o", "m", "a", "l", "i", "a">>,
         <<"S", "o", "m", "a", "l", "i", "a">>>>,
       <<<<"n", "a", "i", "r", "o", "b", "i">>,
         <<"K", "e", "n", "y", "a">>>>,
       <<<<"m", "o", "m", "b", "a", "s", "a">>,
         <<"K", "e", "n", "y", "a">>>>,
       <<<<"k", "e", "n", "y", "a">>,
         <<"K", "e", "n", "y", "a">>>>,
       <<<<"k", "a", "m", "p", "a", "l", "a">>,
         <<"U", "g", "a", "n", "d", "a">>>>,
       <<<<"d", "j", "i", "b", "o", "u", "t", "i">>,
         <<"D", "j", "i", "b", "o", "u", "t", "i">>>>,
       <<<<"j", "i", "g", "j", "i", "g", "a">>,
         <<"E", "t", "h", "i", "o", "p", "i", "a">>>>,
       <<<<"a", "d", "d", "i", "s", " ", "a", "b", "a", "b", "a">>,
         <<"E", "t", "h", "i", "o", "p", "i", "a">>>> >>

\* dict.get(key, default) on a table of <<key, value>> pairs.
Lookup(table, key, default) ==
    LET hits == {i \in 1..Len(table) : table[i][1] = key}
    IN  IF hits = {} THEN default ELSE table[CHOOSE i \in hits : TRUE][2]

\* str.replace('-', ' ')
DashesToSpaces(t) == [i \in 1..Len(t) |-> IF t[i] = "-" THEN " " ELSE t[i]]

\* str.title(): a letter after a non-letter is upper-cased, any other letter lower-cased.
Title(t) ==
    [i \in 1..Len(t) |->
        IF i = 1 \/ ~IsAlpha(t[i - 1]) THEN UpperChar(t[i]) ELSE LowerChar(t[i])]

prettify_location(slug) ==
    IF slug = <<>> THEN <<>>
    ELSE Lookup(LOCATION_NAMES, Strip(Lower(slug)), Title(DashesToSpaces(slug)))

\* (detect_country_cased: a variant that looks for the keywords in the location
\* as it is written)
detect_country_cased(location) ==
    LET hits == {i \in 1..Len(COUNTRY_MAP) : Contains(COUNTRY_MAP[i][1], location)}
    IN  IF hits = {} THEN <<"S", "o", "m", "a", "l", "i", "a">>
        ELSE COUNTRY_MAP[CHOOSE i \in hits : \A j \in hits : i <= j][2]
detect_country(location) ==
    IF location = <<>> THEN <<"S", "o", "m", "a", "l", "i", "a">>
    ELSE LET low  == Lower(location)
             hits == {i \in 1..Len(COUNTRY_MAP) : Contains(COUNTRY_MAP[i][1], low)}
         IN  IF hits = {} THEN <<"S", "o", "m", "a", "l", "i", "a">>
             ELSE COUNTRY_MAP[CHOOSE i \in hits : \A j \in hits : i <= j][2]

\* re.search(r'/jobs/([^/]+)/', url) on the path segments of url: the segment
\* after the first "jobs" segment, when it is not empty and a "/" follows it.
location_from_url(url) ==
    LET at == {i \in 1..(Len(url) - 2) : url[i] = "jobs" /\ url[i + 1] # <<>>}
    IN  IF at = {} THEN <<>>
        ELSE prettify_location(url[(CHOOSE i \in at : \A j \in at : i <= j) + 1])

--------------------------------------------------------------------------
(* URLs and identifiers *)

\* https://somalijobs.com/jobs/<location slug>/<number>/<title slug>
U1 == <<"jobs", <<"g", "a", "r", "o", "w", "e">>, "101", "driver">>
U2 == <<"jobs", <<"m", "o", "g", "a", "d", "i", "s", "c", "i", "o">>, "102", "program-officer">>

Urls == {U1, U2}

\* Every sequence of at most MaxUrls URLs, repeats included.
UrlSeqs == UNION {[1..n -> Urls] : n \in 0..MaxUrls}

\* hashlib.md5(url.encode()).hexdigest(): a digest, distinct for the URLs at hand.
job_uid(url) == <<"md5", url[3]>>

NoTime == -1

--------------------------------------------------------------------------
(* scrape_job_page: the record and the extraction strategies *)
(*                                                                         *)
(* A document is what BeautifulSoup makes of the page: the application/    *)
(* ld+json script blocks in order, the first match of each raw-HTML regex, *)
(* the match of the inline deadline regex, and the elements of the body,   *)
(* siblings in document order, each on a line of its own.                  *)

NewJob(url) ==
    [title |-> <<>>, organization |-> <<>>, location |-> location_from_url(url),
     country |-> <<>>, description |-> <<>>, url |-> url, deadline |-> <<>>,
     datePosted |-> <<>>, sector |-> <<>>, source |-> "somalijobs", type |-> <<>>,
     experience |-> <<>>, howToApply |-> <<>>, qualifications |-> <<>>,
     responsibilities |-> <<>>]

Result(exc, jb) == [exc |-> exc, job |-> jb]

\* x or y, for str
Or(x, y) == IF x # <<>> THEN x ELSE y

Organization == <<"O", "r", "g", "a", "n", "i", "z", "a", "t", "i", "o", "n">>

\* One item of a JSON-LD block (lines 332-345).  An item that is no JSON object
\* has no .get; so has a hiringOrganization or jobLocation that is no object.
ApplyItem(jb, item) ==
    IF item.kind # "object" THEN Result("AttributeError", jb)
    ELSE IF ~(item.type = <<"J", "o", "b", "P", "o", "s", "t", "i", "n", "g">> \/ item.hasDatePosted) THEN Result("none", jb)
    ELSE LET j1 == [jb EXCEPT !.title = Or(item.title, jb.title),
                               !.datePosted = Or(item.datePosted, jb.datePosted),
                               !.deadline = Or(item.validThrough, jb.deadline)]
             j2 == IF item.org.shape = "object" /\ item.org.name # <<>>
                   THEN [j1 EXCEPT !.organization = item.org.name] ELSE j1
             j3 == IF item.loc.shape = "object" /\ item.loc.locality # <<>>
                   THEN [j2 EXCEPT !.location = prettify_location(item.loc.locality)] ELSE j2
             j4 == IF item.employmentType # <<>> /\ item.employmentType # Organization
                   THEN [j3 EXCEPT !.type = item.employmentType] ELSE j3
         IN  IF item.org.shape = "other" THEN Result("AttributeError", j1)
             ELSE IF item.loc.shape = "other" THEN Result("AttributeError", j2)
             ELSE Result("none", j4)

RECURSIVE ApplyItems(_, _)
ApplyItems(jb, items) ==
    IF items = <<>> THEN Result("none", jb)
    ELSE LET r == ApplyItem(jb, Head(items))
         IN  IF r.exc # "none" THEN r ELSE ApplyItems(r.job, Tail(items))

\* The exceptions the JSON-LD loop catches (line 346).
LdCaught == {"JSONDecodeError", "AttributeError"}

\* One script block (lines 328-347): json.loads(script.string) raises TypeError
\* when the script element is empty (script.string is None) and
\* JSONDecodeError when its text is not JSON.
ApplyBlock(jb, block) ==
    LET r == CASE block.kind = "empty"   -> Result("TypeError", jb)
               [] block.kind = "invalid" -> Result("JSONDecodeError", jb)
               [] OTHER                  -> ApplyItems(jb, block.items)
    IN  IF r.exc \in LdCaught THEN Result("none", r.job) ELSE r

\* Method 1: JSON-LD structured data
RECURSIVE Method1Blocks(_, _)
Method1Blocks(jb, blocks) ==
    IF blocks = <<>> THEN Result("none", jb)
    ELSE LET r == ApplyBlock(jb, Head(blocks))
         IN  IF r.exc # "none" THEN r ELSE Method1Blocks(r.job, Tail(blocks))

Method1(d, jb) == Method1Blocks(jb, d.ld)

\* Method 2: regex on the raw HTML
\* (Method2_overwrite: a variant that takes every match, whatever the field holds)
Method2_overwrite(d, jb) ==
    [jb EXCEPT
        !.organization = IF d.rawOrg # <<>> THEN d.rawOrg ELSE jb.organization,
        !.datePosted = IF d.rawDatePosted # <<>> THEN d.rawDatePosted ELSE jb.datePosted,
        !.deadline = IF d.rawDeadline # <<>> THEN d.rawDeadline ELSE jb.deadline]
Method2(d, jb) ==
    [jb EXCEPT
        !.organization = IF jb.organization = <<>> /\ d.rawOrg # <<>>
                         THEN d.rawOrg ELSE jb.organization,
        !.datePosted = IF jb.datePosted = <<>> /\ d.rawDatePosted # <<>>
                       THEN d.rawDatePosted ELSE jb.datePosted,
        !.deadline = IF jb.deadline = <<>> /\ d.rawDeadline # <<>>
                     THEN d.rawDeadline ELSE jb.deadline]

\* The positions of the elements named name.
ElementsNamed(d, name) == {i \in 1..Len(d.body) : d.body[i].name = name}

First(P) == CHOOSE i \in P : \A j \in P : i <= j

\* Method 3: HTML heading
Method3(d, jb) ==
    LET h1s == ElementsNamed(d, "h1")
    IN  IF h1s = {} THEN jb
        ELSE [jb EXCEPT !.title = clean_text(Strip(d.body[First(h1s)].text))]


\* Method 4: company link
Method4(d, jb) ==
    LET ok == {i \in 1..Len(d.body) :
                  /\ Contains(<<"/", "c", "o", "m", "p", "a", "n", "y", "/">>, d.body[i].href)
                  /\ Len(Strip(d.body[i].linkText)) > 1
                  /\ ~Contains(<<"S", "e", "e", " ", "c", "o", "m", "p", "a", "n", "y">>, Strip(d.body[i].linkText))}
    IN  IF jb.organization = <<>> /\ ok # {}
        THEN [jb EXCEPT !.organization = Strip(d.body[First(ok)].linkText)]
        ELSE jb


social_names ==
    { <<"f", "a", "c", "e", "b", "o", "o", "k">>,
      <<"t", "w", "i", "t", "t", "e", "r">>,
      <<"l", "i", "n", "k", "e", "d", "i", "n">>,
      <<"w", "h", "a", "t", "s", "a", "p", "p">>,
      <<"t", "e", "l", "e", "g", "r", "a", "m">>,
      <<"p", "r", "i", "n", "t">>,
      <<"t", "w", "i", "t", "t", "e", "r", "(", "x", ")">>,
      <<"o", "p", "e", "n", "_", "i", "n", "_", "n", "e", "w">> }

SECTION_CAP == 2000
VALUE_CEILING == 100
DESC_CAP == 3000

\* The siblings after the h2 at position h, up to the next h1 or h2.
SiblingsAfter(d, h) ==
    LET stops == {i \in (h + 1)..Len(d.body) : d.body[i].name \in {"h1", "h2"}}
        last  == IF stops = {} THEN Len(d.body) ELSE First(stops) - 1
    IN  SubSeq(d.body, h + 1, last)

\* collect_section: the texts kept from the siblings els.
RECURSIVE SectionTexts(_)
SectionTexts(els) ==
    IF els = <<>> THEN <<>>
    ELSE LET text == Strip(Head(els).text)
         IN  IF Contains(<<"S", "i", "m", "i", "l", "a", "r", " ", "J", "o", "b", "s">>, text) \/ Head(els).name = "footer" THEN <<>>
             ELSE IF Lower(text) \in social_names THEN SectionTexts(Tail(els))
             ELSE IF text # <<>> THEN <<text>> \o SectionTexts(Tail(els))
             ELSE SectionTexts(Tail(els))

collect_section(d, h) ==
    clean_text(Truncate(Strip(JoinLines(SectionTexts(SiblingsAfter(d, h)))), SECTION_CAP))

\* [l.strip() for l in text.split('\n') if l.strip()]
NonEmptyLines(text) ==
    LET lines == SplitLines(text)
    IN  SelectSeq([k \in 1..Len(lines) |-> Strip(lines[k])], LAMBDA l : l # <<>>)

\* parse_job_details_section, lines 476-488: the lines of the grid.
RECURSIVE GridLines(_)
GridLines(els) ==
    IF els = <<>> THEN <<>>
    ELSE IF Head(els).name = "footer" \/ Contains(<<"S", "i", "m", "i", "l", "a", "r", " ", "J", "o", "b", "s">>, Head(els).text) THEN <<>>
    ELSE NonEmptyLines(Strip(Head(els).text)) \o GridLines(Tail(els))

\* label_map of parse_job_details_section (lines 490-497)
GRID_LABELS ==
    << <<<<"p", "o", "s", "t", "e", "d", " ", "d", "a", "t", "e">>, "datePosted">>,
       <<<<"p", "o", "s", "t", "e", "d">>, "datePosted">>,
       <<<<"e", "x", "p", "i", "r", "e", " ", "d", "a", "t", "e">>, "deadline">>,
       <<<<"e", "x", "p", "i", "r", "e">>, "deadline">>,
       <<<<"d", "e", "a", "d", "l", "i", "n", "e">>, "deadline">>,
       <<<<"c", "l", "o", "s", "i", "n", "g", " ", "d", "a", "t", "e">>, "deadline">>,
       <<<<"c", "a", "t", "e", "g", "o", "r", "y">>, "sector">>,
       <<<<"l", "o", "c", "a", "t", "i", "o", "n">>, "location">>,
       <<<<"j", "o", "b", " ", "t", "y", "p", "e">>, "type">>,
       <<<<"e", "m", "p", "l", "o", "y", "m", "e", "n", "t", " ", "t", "y", "p", "e">>, "type">>,
       <<<<"e", "x", "p", "e", "r", "i", "e", "n", "c", "e", " ", "l", "e", "v", "e", "l">>, "experience">>,
       <<<<"e", "x", "p", "e", "r", "i", "e", "n", "c", "e">>, "experience">> >>

\* label_map of the body scan (lines 401-406)
BODY_LABELS ==
    << <<<<"p", "o", "s", "t", "e", "d", " ", "d", "a", "t", "e">>, "datePosted">>,
       <<<<"e", "x", "p", "i", "r", "e", " ", "d", "a", "t", "e">>, "deadline">>,
       <<<<"d", "e", "a", "d", "l", "i", "n", "e">>, "deadline">>,
       <<<<"c", "l", "o", "s", "i", "n", "g", " ", "d", "a", "t", "e">>, "deadline">>,
       <<<<"c", "a", "t", "e", "g", "o", "r", "y">>, "sector">>,
       <<<<"l", "o", "c", "a", "t", "i", "o", "n">>, "location">>,
       <<<<"j", "o", "b", " ", "t", "y", "p", "e">>, "type">>,
       <<<<"e", "x", "p", "e", "r", "i", "e", "n", "c", "e", " ", "l", "e", "v", "e", "l">>, "experience">> >>

\* if value and len(value) < 100
\* (Accepted_any: a variant without the length ceiling)
Accepted_any(value) == value # <<>>
Accepted(value) == value # <<>> /\ Len(value) < VALUE_CEILING

\* One line of the grid (lines 500-510): the first label the line equals, with
\* or without a trailing colon, names the field; the line above is the value.
GridLine(jb, lines, i) ==
    LET low  == Strip(Lower(lines[i]))
        hits == {k \in 1..Len(GRID_LABELS) :
                    low = GRID_LABELS[k][1] \/ low = GRID_LABELS[k][1] \o <<":">>}
    IN  IF hits = {} \/ i = 1 THEN jb
        ELSE LET field == GRID_LABELS[First(hits)][2]
                 value == Strip(lines[i - 1])
             IN  IF Accepted(value)
                 THEN [jb EXCEPT ![field] =
                          IF field = "location" THEN prettify_location(value) ELSE value]
                 ELSE jb

\* The record after the label loop has handled lines i..last.
RECURSIVE GridFrom(_, _, _, _)
GridFrom(jb, lines, i, last) ==
    IF i > last THEN jb ELSE GridFrom(GridLine(jb, lines, i), lines, i + 1, last)

parse_job_details_section(d, h, jb) ==
    LET lines == GridLines(SiblingsAfter(d, h))
    IN  GridFrom(jb, lines, 1, Len(lines))


\* The apply link of a "how to apply" section (lines 390-394): the first link
\* inside the element that follows the heading, unless it points to the site.
ApplyLink(d, h) ==
    IF h < Len(d.body) /\ d.body[h + 1].name # "a" /\ d.body[h + 1].href # <<>>
       /\ ~Contains(<<"s", "o", "m", "a", "l", "i", "j", "o", "b", "s", ".", "c", "o", "m">>, d.body[h + 1].href)
    THEN <<"\n", "\n", "A", "p", "p", "l", "y", " ", "a", "t", ":", " ">> \o d.body[h + 1].href
    ELSE <<>>

\* The branch of Method 5 a heading takes (lines 381-395).
SectionKind(heading) ==
    LET has(w) == Contains(w, heading)
    IN  IF has(<<"j", "o", "b", " ", "d", "e", "s", "c", "r", "i", "p", "t", "i", "o", "n">>) \/ heading = <<"d", "e", "s", "c", "r", "i", "p", "t", "i", "o", "n">> THEN "description"
        ELSE IF has(<<"s", "k", "i", "l", "l", "s">>) \/ has(<<"q", "u", "a", "l", "i", "f", "i", "c", "a", "t", "i", "o", "n", "s">>) \/ has(<<"r", "e", "q", "u", "i", "r", "e", "m", "e", "n", "t", "s">>)
          THEN "qualifications"
        ELSE IF has(<<"r", "e", "s", "p", "o", "n", "s", "i", "b", "i", "l", "i", "t", "i", "e", "s">>) \/ has(<<"d", "u", "t", "i", "e", "s">>) THEN "responsibilities"
        ELSE IF has(<<"h", "o", "w", " ", "t", "o", " ", "a", "p", "p", "l", "y">>) \/ has(<<"a", "p", "p", "l", "i", "c", "a", "t", "i", "o", "n">>) THEN "howToApply"
        ELSE IF has(<<"j", "o", "b", " ", "d", "e", "t", "a", "i", "l", "s">>) THEN "details"
        ELSE "none"

\* One h2 of Method 5 (lines 378-396)
Section(d, h, jb) ==
    LET kind    == SectionKind(Lower(Strip(d.body[h].text)))
        content == collect_section(d, h)
    IN  CASE kind = "howToApply" -> [jb EXCEPT !.howToApply = content \o ApplyLink(d, h)]
          [] kind = "details"    -> parse_job_details_section(d, h, jb)
          [] kind = "none"       -> jb
          [] OTHER               -> [jb EXCEPT ![kind] = content]

\* The record after the h2 loop has handled the elements i..last.
RECURSIVE SectionsFrom(_, _, _, _)
SectionsFrom(d, jb, i, last) ==
    IF i > last THEN jb
    ELSE SectionsFrom(d, IF d.body[i].name = "h2" THEN Section(d, i, jb) ELSE jb,
                      i + 1, last)

\* Method 5: sections by h2 headings
Method5(d, jb) == SectionsFrom(d, jb, 1, Len(d.body))

\* soup.get_text(), then the non-empty stripped lines (lines 399-400)
BodyLines(d) == NonEmptyLines(JoinLines([i \in 1..Len(d.body) |-> d.body[i].text]))

\* One line of the body scan (lines 408-417)
BodyLine(jb, lines, i) ==
    LET low  == Lower(lines[i])
        hits == {k \in 1..Len(BODY_LABELS) : low = BODY_LABELS[k][1]}
    IN  IF hits = {} THEN jb
        ELSE LET field == BODY_LABELS[First(hits)][2]
                 value == lines[i - 1]
             IN  IF Accepted(value) /\ jb[field] = <<>>
                 THEN [jb EXCEPT ![field] =
                          IF field = "location" THEN prettify_location(value) ELSE value]
                 ELSE jb

RECURSIVE BodyFrom(_, _, _)
BodyFrom(jb, lines, i) ==
    IF i > Len(lines) THEN jb ELSE BodyFrom(BodyLine(jb, lines, i), lines, i + 1)

\* Fallback: value above label in the body text
Method6(d, jb) == BodyFrom(jb, BodyLines(d), 2)

\* Inline deadline fallback (lines 420-423)
Method7(d, jb) ==
    IF jb.deadline = <<>> /\ d.inlineDeadline # <<>>
    THEN [jb EXCEPT !.deadline = Strip(d.inlineDeadline)]
    ELSE jb


\* Fix type (lines 433-435)
\* (fix_type_blank_only: a variant that replaces the empty type only)
fix_type_blank_only(ty) == IF ty = <<>> THEN <<"F", "u", "l", "l", " ", "T", "i", "m", "e">> ELSE ty
fix_type(ty) == IF ty = <<>> \/ ty = Organization THEN <<"F", "u", "l", "l", " ", "T", "i", "m", "e">> ELSE ty

\* Lines 425-443: combine the description, fix the type, set the country, clean.
Finalize(jb) ==
    LET d1 == jb.description
        d2 == IF jb.qualifications # <<>>
              THEN d1 \o <<"\n", "\n", "=", "=", "=", " ", "S", "k", "i", "l", "l", "s", " ", "&", " ", "Q", "u", "a", "l", "i", "f", "i", "c", "a", "t", "i", "o", "n", "s", " ", "=", "=", "=", "\n">> \o jb.qualifications ELSE d1
        d3 == IF jb.responsibilities # <<>>
              THEN d2 \o <<"\n", "\n", "=", "=", "=", " ", "R", "e", "s", "p", "o", "n", "s", "i", "b", "i", "l", "i", "t", "i", "e", "s", " ", "=", "=", "=", "\n">> \o jb.responsibilities ELSE d2
        desc == clean_text(Truncate(Strip(d3), DESC_CAP))
    IN  [jb EXCEPT
            !.description = clean_text(desc),
            !.type = fix_type(jb.type),
            !.country = detect_country(jb.location),
            !.title = clean_text(jb.title),
            !.organization = clean_text(jb.organization),
            !.qualifications = clean_text(jb.qualifications),
            !.responsibilities = clean_text(jb.responsibilities),
            !.howToApply = clean_text(jb.howToApply),
            !.sector = clean_text(jb.sector),
            !.experience = clean_text(jb.experience)]

\* scrape_job_page on a fetched document: the record, or the exception raised.
\* After the structured data the other strategies run in the order of the code.
Extract(url, d) ==
    LET r == Method1(d, NewJob(url))
    IN  IF r.exc # "none" THEN r
        ELSE Result("none",
                 Finalize(Method7(d, Method6(d, Method5(d, Method4(d, Method3(d,
                     Method2(d, r.job))))))))
--------------------------------------------------------------------------
(* Timestamps *)

\* datetime.isoformat(): fixed-width, zero-padded, most significant field first.
isoformat(t) == <<t \div 100, (t \div 10) % 10, t % 10>>

\* Python's str comparison a < b: the first differing character decides, a
\* proper prefix is smaller.
RECURSIVE StrLess(_, _)
StrLess(a, b) ==
    IF b = <<>> THEN FALSE
    ELSE IF a = <<>> THEN TRUE
    ELSE IF Head(a) # Head(b) THEN Head(a) < Head(b)
    ELSE StrLess(Tail(a), Tail(b))

StrGreater(a, b) == StrLess(b, a)

--------------------------------------------------------------------------
(* SeenTracker *)

EmptyMap == [k \in {} |-> <<>>]

\* What open() + json.load() + the purge comprehension end in, per kind of file.
LoadOutcome(st) ==
    CASE st.kind = "missing"      -> "FileNotFoundError"
      [] st.kind = "unreadable"   -> "PermissionError"
      [] st.kind = "invalid_json" -> "JSONDecodeError"
      [] st.kind = "not_mapping"  -> "AttributeError"
      [] st.kind = "bad_value"    -> "TypeError"
      [] OTHER                    -> "ok"

\* The exceptions _load catches.
LoadCaught == {"FileNotFoundError", "JSONDecodeError"}

\* The purge: {k: v for k, v in data.items() if v > cutoff}
Keep(v, cutoff) == StrGreater(v, cutoff)

Purge(data, t) ==
    LET cutoff == isoformat(t - RETENTION_DAYS)
        kept == {k \in DOMAIN data : Keep(data[k], cutoff)}
    IN  [k \in kept |-> data[k]]

\* SeenTracker._load at clock value t: the mapping, or the exception raised.
_load(st, t) ==
    LET outcome == LoadOutcome(st)
    IN  IF outcome = "ok" THEN [exc |-> "none", value |-> Purge(st.data, t)]
        ELSE IF outcome \in LoadCaught THEN [exc |-> "none", value |-> EmptyMap]
        ELSE [exc |-> outcome, value |-> EmptyMap]

is_seen(m, url) == job_uid(url) \in DOMAIN m

\* (a variant that keys the entry by the URL itself instead of its identifier)
mark_seen_rawkey(m, url, t) ==
    [k \in DOMAIN m \cup {<<"url", url[3]>>} |->
        IF k = <<"url", url[3]>> THEN isoformat(t) ELSE m[k]]
mark_seen(m, url, t) ==
    [k \in DOMAIN m \cup {job_uid(url)} |->
        IF k = job_uid(url) THEN isoformat(t) ELSE m[k]]

\* The file after mark_seen: it assigns to self.seen only, the file stays as it is.
\* (file_after_mark_writethrough: a variant that writes the mapping at once)
file_after_mark_writethrough(st, m) == [kind |-> "mapping", data |-> m]
file_after_mark(st, m) == st

\* (a variant that looks the URL itself up instead of its identifier)
filter_new_rawkey(m, urls) == SelectSeq(urls, LAMBDA u : <<"url", u[3]>> \notin DOMAIN m)
\* (filter_new_all: a variant that keeps every URL)
filter_new_all(m, urls) == urls
filter_new(m, urls) == SelectSeq(urls, LAMBDA u : ~is_seen(m, u))

\* json.dump(self.seen, f): the file now holds the mapping.
save(m) == [kind |-> "mapping", data |-> m]

--------------------------------------------------------------------------
(* The parts of the state a specification leaves alone *)

NoDoc == [ld |-> <<>>, rawOrg |-> <<>>, rawDatePosted |-> <<>>, rawDeadline |-> <<>>,
          inlineDeadline |-> <<>>, body |-> <<>>]

PageIdle ==
    /\ doc = NoDoc
    /\ job = NewJob(U1)
    /\ stage = "idle"

RunIdle ==
    /\ all_urls = <<>>
    /\ new_urls = <<>>
    /\ idx = 0
    /\ attempt = 0
    /\ pauses = 0
    /\ delays = 0
    /\ jobs = <<>>
    /\ marked = <<>>
    /\ saves = 0
    /\ runs = 0

TrackerIdle ==
    /\ store = [kind |-> "missing", data |-> [k \in {} |-> <<>>]]
    /\ now = StartTime
    /\ ticks = 0
    /\ pc = "absent"
    /\ seen = [k \in {} |-> <<>>]
    /\ op = [name |-> "none", arg |-> <<>>, ret |-> <<>>, flag |-> FALSE, exc |-> "none"]
    /\ markTime = [u \in Urls |-> NoTime]
    /\ savedMark = [u \in Urls |-> NoTime]

--------------------------------------------------------------------------
(* The tracker used through its public operations, in any order *)

NoMarks == [u \in Urls |-> NoTime]

Call(name, arg, ret, flag, exc) ==
    [name |-> name, arg |-> arg, ret |-> ret, flag |-> flag, exc |-> exc]

NoCall == Call("none", <<>>, <<>>, FALSE, "none")

\* The files a process may find: none, an unreadable one, one that is not JSON,
\* JSON that is no mapping, a mapping with a number as a value, and mappings
\* earlier runs wrote.
InitData ==
    { EmptyMap,
      [k \in {job_uid(U1)} |-> isoformat(StartTime - RETENTION_DAYS)],
      [k \in {job_uid(U1), job_uid(U2)} |->
          IF k = job_uid(U1) THEN isoformat(StartTime - RETENTION_DAYS - 1)
          ELSE isoformat(StartTime - RETENTION_DAYS + 1)] }

InitStores ==
    {[kind |-> k, data |-> EmptyMap] :
        k \in {"missing", "unreadable", "invalid_json", "not_mapping", "bad_value"}}
    \cup {[kind |-> "mapping", data |-> d] : d \in InitData}

TickSteps == {1, RETENTION_DAYS - 1}

TrackerInit ==
    /\ store \in InitStores
    /\ now = StartTime
    /\ ticks = 0
    /\ pc = "absent"
    /\ seen = EmptyMap
    /\ op = NoCall
    /\ markTime = NoMarks
    /\ savedMark = NoMarks
    /\ PageIdle
    /\ RunIdle

\* SeenTracker(filepath): __init__ runs _load.
Construct ==
    /\ pc = "absent"
    /\ op = NoCall
    /\ LET r == _load(store, now)
       IN  /\ pc' = IF r.exc = "none" THEN "ready" ELSE "raised"
           /\ seen' = r.value
           /\ op' = Call("load", <<>>, <<>>, FALSE, r.exc)
    /\ markTime' = NoMarks
    /\ UNCHANGED <<store, now, ticks, savedMark>>
    /\ UNCHANGED <<pageVars, runVars>>

IsSeen(u) ==
    /\ pc = "ready"
    /\ op = NoCall
    /\ op' = Call("is_seen", <<u>>, <<>>, is_seen(seen, u), "none")
    /\ UNCHANGED <<store, now, ticks, pc, seen, markTime, savedMark>>
    /\ UNCHANGED <<pageVars, runVars>>

MarkSeen(u) ==
    /\ pc = "ready"
    /\ op = NoCall
    /\ seen' = mark_seen(seen, u, now)
    /\ op' = Call("mark_seen", <<u>>, <<>>, FALSE, "none")
    /\ store' = file_after_mark(store, seen')
    /\ markTime' = [markTime EXCEPT ![u] = now]
    /\ UNCHANGED <<now, ticks, pc, savedMark>>
    /\ UNCHANGED <<pageVars, runVars>>

FilterNew(urls) ==
    /\ pc = "ready"
    /\ op = NoCall
    /\ op' = Call("filter_new", urls, filter_new(seen, urls), FALSE, "none")
    /\ UNCHANGED <<store, now, ticks, pc, seen, markTime, savedMark>>
    /\ UNCHANGED <<pageVars, runVars>>

Save ==
    /\ pc = "ready"
    /\ op = NoCall
    /\ store' = save(seen)
    /\ op' = Call("save", <<>>, <<>>, FALSE, "none")
    /\ savedMark' = [u \in Urls |->
                        IF markTime[u] # NoTime THEN markTime[u] ELSE savedMark[u]]
    /\ UNCHANGED <<now, ticks, pc, seen, markTime>>
    /\ UNCHANGED <<pageVars, runVars>>

\* The process ends (normally, or on the exception the constructor raised).
Exit ==
    /\ pc \in {"ready", "raised"}
    /\ pc' = "absent"
    /\ seen' = EmptyMap
    /\ op' = NoCall
    /\ markTime' = NoMarks
    /\ UNCHANGED <<store, now, ticks, savedMark>>
    /\ UNCHANGED <<pageVars, runVars>>

\* The caller takes the result and goes on.
Return ==
    /\ pc = "ready"
    /\ op # NoCall
    /\ op' = NoCall
    /\ UNCHANGED <<store, now, ticks, pc, seen, markTime, savedMark>>
    /\ UNCHANGED <<pageVars, runVars>>

Tick(d) ==
    /\ ticks < MaxTicks
    /\ op = NoCall
    /\ now' = now + d
    /\ ticks' = ticks + 1
    /\ UNCHANGED <<store, pc, seen, op, markTime, savedMark>>
    /\ UNCHANGED <<pageVars, runVars>>

TrackerNext ==
    \/ Construct
    \/ \E u \in Urls : IsSeen(u)
    \/ \E u \in Urls : MarkSeen(u)
    \/ \E urls \in UrlSeqs : FilterNew(urls)
    \/ Save
    \/ Return
    \/ Exit
    \/ \E d \in TickSteps : Tick(d)

SpecTracker == TrackerInit /\ [][TrackerNext]_vars

--------------------------------------------------------------------------
(* scrape_job_page on one document, one strategy per step *)

El(name, text) == [name |-> name, text |-> text, href |-> <<>>, linkText |-> <<>>]

\* An <a href> element, or an element that holds one.
WithLink(name, text, href, linkText) ==
    [name |-> name, text |-> text, href |-> href, linkText |-> linkText]

\* What item.get(key, {}) gives for hiringOrganization and jobLocation: the
\* default when the key is absent ("absent"), an object ("object"), or a value
\* that is no object ("other").
Sub(shape, name, locality) == [shape |-> shape, name |-> name, locality |-> locality]

Absent == Sub("absent", <<>>, <<>>)

Item(type, title, posted, through, org, loc, etype) ==
    [kind |-> "object", type |-> type, hasDatePosted |-> posted # <<>>,
     title |-> title, datePosted |-> posted, validThrough |-> through,
     org |-> org, loc |-> loc, employmentType |-> etype]

\* An ld+json script: "items" when its text is JSON, "empty" when the element
\* has no text, "invalid" when the text is not JSON.
Script(kind, items) == [kind |-> kind, items |-> items]

CompleteItem ==
    Item(<<"J", "o", "b", "P", "o", "s", "t", "i", "n", "g">>, <<"P", "r", "o", "g", "r", "a", "m", " ", "O", "f", "f", "i", "c", "e", "r">>, <<"2", "0", "2", "5", "-", "0", "1", "-", "0", "1">>, <<"2", "0", "2", "5", "-", "0", "2", "-", "0", "1">>,
         Sub("object", <<"E", "x", "a", "m", "p", "l", "e", " ", "O", "r", "g">>, <<>>), Sub("object", <<>>, <<"H", "a", "r", "g", "e", "i", "s", "a">>),
         <<"F", "u", "l", "l", "-", "t", "i", "m", "e">>)

LdComplete == <<Script("items", <<CompleteItem>>)>>
LdEmptyScript == <<Script("empty", <<>>), Script("items", <<CompleteItem>>)>>
LdBlankTitle ==
    <<Script("items",
             <<Item(<<"J", "o", "b", "P", "o", "s", "t", "i", "n", "g">>, <<" ", " ">>, <<"2", "0", "2", "5", "-", "0", "1", "-", "0", "3">>, <<>>, Absent, Absent, <<>>)>>)>>

\* The ld+json scripts of a page: none; a complete posting; an item typed
\* Organization that carries a datePosted; an empty script before a posting;
\* invalid JSON, an item that is no object (a string, a number, a list) and a
\* hiringOrganization that is no object; two
\* scripts, the second without dates; a blank title.
LdChoices ==
    { <<>>,
      LdComplete,
      <<Script("items", <<Item(Organization, <<"N", "u", "r", "s", "e">>, <<"2", "0", "2", "5", "-", "0", "1", "-", "0", "2">>, <<>>, Absent,
                               Absent, Organization)>>)>>,
      LdEmptyScript,
      <<Script("invalid", <<>>),
        Script("items", <<[Item(<<>>, <<>>, <<>>, <<>>, Absent, Absent, <<>>)
                               EXCEPT !.kind = "other"],
                          CompleteItem>>),
        Script("items", <<Item(<<"J", "o", "b", "P", "o", "s", "t", "i", "n", "g">>, <<"C", "l", "e", "r", "k">>, <<>>, <<>>,
                               Sub("other", <<>>, <<>>),
                               Sub("object", <<>>, <<"B", "o", "s", "a", "s", "o">>), <<"C", "o", "n", "t", "r", "a", "c", "t">>)>>)>>,
      <<Script("items", <<Item(<<"J", "o", "b", "P", "o", "s", "t", "i", "n", "g">>, <<"N", "u", "r", "s", "e">>, <<"2", "0", "2", "5", "-", "0", "1", "-", "0", "2">>, <<"2", "0", "2", "5", "-", "0", "2", "-", "0", "2">>,
                               Sub("object", <<"C", "l", "i", "n", "i", "c">>, <<>>),
                               Sub("object", <<>>, <<"n", "a", "i", "r", "o", "b", "i">>), <<"P", "a", "r", "t", "-", "t", "i", "m", "e">>)>>),
        Script("items", <<Item(<<"J", "o", "b", "P", "o", "s", "t", "i", "n", "g">>, <<"P", "r", "o", "g", "r", "a", "m", " ", "O", "f", "f", "i", "c", "e", "r">>, <<>>, <<>>, Absent,
                               Absent, <<>>),
                          Item(Organization, <<"E", "x", "a", "m", "p", "l", "e", " ", "O", "r", "g">>, <<>>, <<>>, Absent,
                               Absent, <<>>)>>)>>,
      LdBlankTitle }

\* <h1>Driver</h1> and a Job Details section, the values above their labels
\* except for the deadline.
BodyGrid ==
    <<El("h1", <<"D", "r", "i", "v", "e", "r">>),
      El("h2", <<"J", "o", "b", " ", "D", "e", "t", "a", "i", "l", "s">>),
      El("p", <<"G", "a", "r", "o", "w", "e">>), El("p", <<"L", "o", "c", "a", "t", "i", "o", "n">>),
      El("p", <<"D", "e", "a", "d", "l", "i", "n", "e">>), El("p", <<"2", "0", "2", "5", "-", "0", "3", "-", "1", "5">>)>>

BodyBlankH1 ==
    <<El("h1", <<" ", " ">>),
      El("p", <<"k", "i", "s", "m", "a", "y", "o">>), El("p", <<"L", "o", "c", "a", "t", "i", "o", "n">>),
      El("p", <<"M", "i", "d", " ", "l", "e", "v", "e", "l">>), El("p", <<"E", "x", "p", "e", "r", "i", "e", "n", "c", "e", " ", "L", "e", "v", "e", "l">>),
      El("p", <<"O", "r", "g", "a", "n", "i", "z", "a", "t", "i", "o", "n">>), El("p", <<"J", "o", "b", " ", "T", "y", "p", "e">>),
      El("p", [i \in 1..VALUE_CEILING |-> "z"]), El("p", <<"C", "a", "t", "e", "g", "o", "r", "y">>)>>

\* A Job Details section that opens with a label, holds a value of exactly
\* VALUE_CEILING characters above a label and one a character shorter above
\* another.
BodyLong ==
    <<El("h2", <<"J", "o", "b", " ", "D", "e", "t", "a", "i", "l", "s">>),
      El("p", <<"L", "o", "c", "a", "t", "i", "o", "n">>),
      El("p", [i \in 1..VALUE_CEILING |-> "x"]), El("p", <<"D", "e", "a", "d", "l", "i", "n", "e", ":">>),
      El("p", [i \in 1..(VALUE_CEILING - 1) |-> "y"]), El("p", <<"C", "a", "t", "e", "g", "o", "r", "y">>)>>

\* The bodies of a page: empty; the grid; every kind of section; a blank h1
\* above labelled values; labelled values outside and inside a grid; values
\* at the length ceiling.
BodyChoices ==
    { <<>>,
      BodyGrid,
      BodyLong,
      <<El("h1", <<" ", "S", "e", "n", "i", "o", "r", " ", " ", "D", "r", "i", "v", "e", "r", " ">>),
        WithLink("a", <<"S", "e", "e", " ", "c", "o", "m", "p", "a", "n", "y", " ", "p", "r", "o", "f", "i", "l", "e">>, <<"/", "c", "o", "m", "p", "a", "n", "y", "/", "a", "c", "m", "e">>, <<"S", "e", "e", " ", "c", "o", "m", "p", "a", "n", "y", " ", "p", "r", "o", "f", "i", "l", "e">>),
        WithLink("a", <<"A", "c", "m", "e", " ", "L", "t", "d">>, <<"/", "c", "o", "m", "p", "a", "n", "y", "/", "a", "c", "m", "e">>, <<"A", "c", "m", "e", " ", "L", "t", "d">>),
        El("h2", <<"J", "o", "b", " ", "D", "e", "s", "c", "r", "i", "p", "t", "i", "o", "n">>),
        El("p", <<"D", "r", "i", "v", "e", " ", " ", "s", "a", "f", "e", "l", "y">>), El("p", <<"F", "a", "c", "e", "b", "o", "o", "k">>), El("p", <<"D", "a", "i", "l", "y", " ", "t", "r", "i", "p", "s">>),
        El("h2", <<"S", "k", "i", "l", "l", "s", " ", "a", "n", "d", " ", "R", "e", "q", "u", "i", "r", "e", "m", "e", "n", "t", "s">>),
        El("p", <<"L", "i", "c", "e", "n", "s", "e">>),
        El("h2", <<"K", "e", "y", " ", "D", "u", "t", "i", "e", "s">>),
        El("p", <<"D", "e", "l", "i", "v", "e", "r", " ", "g", "o", "o", "d", "s">>),
        El("h2", <<"H", "o", "w", " ", "t", "o", " ", "A", "p", "p", "l", "y">>),
        WithLink("p", <<"S", "e", "n", "d", " ", "y", "o", "u", "r", " ", "C", "V">>, <<"h", "t", "t", "p", "s", ":", "/", "/", "a", "c", "m", "e", ".", "s", "o", "/", "a", "p", "p", "l", "y">>, <<"C", "V">>),
        El("h2", <<"J", "o", "b", " ", "D", "e", "t", "a", "i", "l", "s">>),
        El("div", <<"N", "a", "i", "r", "o", "b", "i", "\n", "L", "o", "c", "a", "t", "i", "o", "n", ":", "\n", "\n", "P", "a", "r", "t", " ", "T", "i", "m", "e", "\n", "J", "o", "b", " ", "T", "y", "p", "e", "\n", "2", "0", "2", "5", "-", "0", "4", "-", "0", "1", "\n", "P", "o", "s", "t", "e", "d", " ", "D", "a", "t", "e", "\n", "2", "0", "2", "5", "-", "0", "4", "-", "3", "0", "\n", "E", "x", "p", "i", "r", "e", " ", "D", "a", "t", "e">>),
        El("p", <<"S", "i", "m", "i", "l", "a", "r", " ", "J", "o", "b", "s", " ", "n", "e", "a", "r", " ", "y", "o", "u">>),
        El("p", <<"H", "e", "a", "l", "t", "h">>), El("p", <<"C", "a", "t", "e", "g", "o", "r", "y">>)>>,
      BodyBlankH1,
      <<El("p", <<"H", "e", "a", "l", "t", "h">>), El("p", <<"C", "a", "t", "e", "g", "o", "r", "y">>),
        El("p", <<"C", "o", "n", "t", "r", "a", "c", "t">>), El("p", <<"J", "o", "b", " ", "T", "y", "p", "e">>),
        El("p", <<"2", "0", "2", "5", "-", "0", "5", "-", "0", "5">>), El("p", <<"C", "l", "o", "s", "i", "n", "g", " ", "D", "a", "t", "e">>),
        El("p", <<"2", "0", "2", "5", "-", "0", "5", "-", "0", "1">>), El("p", <<"P", "o", "s", "t", "e", "d", " ", "D", "a", "t", "e">>),
        El("h2", <<"J", "o", "b", " ", "D", "e", "t", "a", "i", "l", "s">>),
        El("p", <<"T", "e", "m", "p", "o", "r", "a", "r", "y">>), El("p", <<"E", "m", "p", "l", "o", "y", "m", "e", "n", "t", " ", "T", "y", "p", "e">>),
        El("footer", <<"S", "e", "n", "i", "o", "r">>), El("p", <<"E", "x", "p", "e", "r", "i", "e", "n", "c", "e">>)>> }

\* The first matches of the raw-HTML regexes of Method 2: none, or all three,
\* the deadline written with a non-breaking space and two spaces in a row.
RawNone == [org |-> <<>>, datePosted |-> <<>>, deadline |-> <<>>]
RawAll ==
    [org |-> <<"R", "a", "w", " ", "O", "r", "g">>, datePosted |-> <<"2", "0", "2", "4", "-", "1", "2", "-", "0", "1">>,
     deadline |-> <<"3", "1">> \o <<"nbsp">> \o <<"D", "e", "c", " ", " ", "2", "0", "2", "4">>]

Doc(ld, raw, inline, body) ==
    [ld |-> ld, rawOrg |-> raw.org, rawDatePosted |-> raw.datePosted,
     rawDeadline |-> raw.deadline, inlineDeadline |-> inline, body |-> body]

\* A description section that opens with the e-mail placeholder and a
\* requirements section, each SECTION_CAP characters long.
BodyHuge ==
    <<El("h2", <<"J", "o", "b", " ", "D", "e", "s", "c", "r", "i", "p", "t", "i", "o", "n">>),
      El("p", <<"[", "e", "m", "a", "i", "l", " ", "p", "r", "o", "t", "e", "c", "t", "e", "d", "]">> \o [i \in 1..(SECTION_CAP - 17) |-> "x"]),
      El("h2", <<"R", "e", "q", "u", "i", "r", "e", "m", "e", "n", "t", "s">>),
      El("p", [i \in 1..SECTION_CAP |-> "y"])>>

\* The inline deadline regex matches nothing, or a date.
Docs ==
    {Doc(ld, raw, inline, body) :
        ld \in LdChoices, raw \in {RawNone, RawAll},
        inline \in {<<>>, <<"M", "a", "r", "c", "h", " ", "5", ",", " ", "2", "0", "2", "5">>}, body \in BodyChoices}
    \cup {Doc(<<>>, RawNone, <<>>, BodyHuge)}

\* scrape_job_page starts on a job URL, or on a URL that names no location.
PageInit ==
    /\ TrackerIdle
    /\ RunIdle
    /\ doc \in Docs
    /\ \E url \in Urls \cup {<<"jobs", "103">>} : job = NewJob(url)
    /\ stage = "method1"

RunMethod1 ==
    /\ stage = "method1"
    /\ LET r == Method1(doc, job)
       IN  /\ job' = r.job
           /\ stage' = IF r.exc = "none" THEN "method2" ELSE "raised"
    /\ UNCHANGED <<doc, trackerVars, runVars>>

Step(from, to, next) ==
    /\ stage = from
    /\ job' = next
    /\ stage' = to
    /\ UNCHANGED <<doc, trackerVars, runVars>>

RunMethod2 == Step("method2", "method3", Method2(doc, job))
RunMethod3 == Step("method3", "method4", Method3(doc, job))
RunMethod4 == Step("method4", "method5", Method4(doc, job))
RunMethod5 == Step("method5", "method6", Method5(doc, job))
RunMethod6 == Step("method6", "method7", Method6(doc, job))
RunMethod7 == Step("method7", "finalize", Method7(doc, job))
RunFinalize == Step("finalize", "returned", Finalize(job))

PageNext ==
    \/ RunMethod1
    \/ RunMethod2
    \/ RunMethod3
    \/ RunMethod4
    \/ RunMethod5
    \/ RunMethod6
    \/ RunMethod7
    \/ RunFinalize

SpecPage == PageInit /\ [][PageNext]_vars

--------------------------------------------------------------------------
(* Runs of scrape_somalijobs, one process after the other *)

MaxRuns == 2
MAX_JOBS == 100
ATTEMPTS == 3

\* What collect_job_urls may return: the URLs of the listing, without repeats
\* (none when the listing could not be read).
Listings == {urls \in UrlSeqs : \A i, j \in 1..Len(urls) : urls[i] = urls[j] => i = j}

\* The pages a job URL may answer with: the empty response body, a complete
\* posting, one whose JSON-LD title is blank, one whose h1 is blank, one with an
\* empty ld+json script, one whose ld+json script is not JSON.
RunDocs ==
    { NoDoc,
      Doc(LdComplete, RawNone, <<>>, <<>>),
      Doc(LdBlankTitle, RawNone, <<>>, <<>>),
      Doc(LdComplete, RawNone, <<>>, BodyBlankH1),
      Doc(LdEmptyScript, RawNone, <<>>, BodyGrid),
      Doc(<<Script("invalid", <<>>)>>, RawAll, <<>>, BodyGrid) }

\* fetch_page sleeps after a failed attempt unless it was the last one.
\* (PauseAfter_always: a variant that sleeps after every failed attempt)
PauseAfter_always(n) == TRUE
PauseAfter(n) == n < ATTEMPTS - 1

\* scrape_job_page's extraction of every page of the runs, for every URL.
Extracted == [url \in Urls, d \in RunDocs \ {NoDoc} |-> Extract(url, d)]

None == [exc |-> "none", kind |-> "None", job |-> NewJob(U1)]

Returned(r) ==
    [exc |-> r.exc, kind |-> IF r.exc = "none" THEN "record" ELSE "raised", job |-> r.job]

\* scrape_job_page: None when fetch_page gave nothing, else the record or the
\* exception of the extraction.
scrape_job_page(url, fetched, d) ==
    IF ~fetched \/ d = NoDoc THEN None
    ELSE Returned(IF url \in Urls THEN Extracted[url, d] ELSE Extract(url, d))

\* if job and job['title']
\* (Usable_untitled: a variant that takes any record)
Usable_untitled(r) == r.kind = "record"
Usable(r) == r.kind = "record" /\ r.job.title # <<>>

\* (urls_to_scrape_all: a variant without the limit)
urls_to_scrape_all == new_urls
urls_to_scrape == Truncate(new_urls, MAX_JOBS)

RunReset ==
    /\ all_urls' = <<>>
    /\ new_urls' = <<>>
    /\ idx' = 0
    /\ attempt' = 0
    /\ pauses' = 0
    /\ delays' = 0
    /\ jobs' = <<>>
    /\ marked' = <<>>
    /\ saves' = 0

Init ==
    /\ store \in InitStores
    /\ now = StartTime
    /\ ticks = 0
    /\ pc = "absent"
    /\ seen = EmptyMap
    /\ op = NoCall
    /\ markTime = NoMarks
    /\ savedMark = NoMarks
    /\ PageIdle
    /\ RunIdle

\* step_scrape starts: the tracker is constructed.
Start ==
    /\ pc = "absent"
    /\ runs < MaxRuns
    /\ runs' = runs + 1
    /\ LET r == _load(store, now)
       IN  /\ pc' = IF r.exc = "none" THEN "collect" ELSE "raised"
           /\ seen' = r.value
    /\ markTime' = NoMarks
    /\ RunReset
    /\ UNCHANGED <<store, now, ticks, op, savedMark, pageVars>>

\* Steps 1 and 2 of scrape_somalijobs: collect the URLs, keep the new ones.
Collect(urls) ==
    /\ pc = "collect"
    /\ all_urls' = urls
    /\ new_urls' = IF urls = <<>> THEN <<>> ELSE filter_new(seen, urls)
    /\ IF new_urls' = <<>>
       THEN pc' = "done" /\ idx' = 0
       ELSE pc' = "fetch" /\ idx' = 1
    /\ UNCHANGED <<store, now, ticks, seen, op, markTime, savedMark, pageVars>>
    /\ UNCHANGED <<attempt, pauses, delays, jobs, marked, saves, runs>>

\* The attempts and the pauses of the fetch_page call under way: none yet when
\* the call starts.
attempts_made == IF stage = "fetching" THEN attempt ELSE 0
pauses_made == IF stage = "fetching" THEN pauses ELSE 0

\* One attempt of fetch_page raises a RequestException; after the last one
\* fetch_page returns None.
FetchFail ==
    /\ pc = "fetch"
    /\ attempts_made < ATTEMPTS
    /\ attempt' = attempts_made + 1
    /\ pauses' = IF PauseAfter(attempts_made) THEN pauses_made + 1 ELSE pauses_made
    /\ IF attempt' = ATTEMPTS
       THEN pc' = "fetched" /\ stage' = "nohtml"
       ELSE pc' = pc /\ stage' = "fetching"
    /\ doc' = NoDoc
    /\ UNCHANGED <<store, now, ticks, seen, op, markTime, savedMark, job>>
    /\ UNCHANGED <<all_urls, new_urls, idx, delays, jobs, marked, saves, runs>>

\* One attempt of fetch_page gets the page: fetch_page returns its text.
FetchOk(d) ==
    /\ pc = "fetch"
    /\ attempts_made < ATTEMPTS
    /\ attempt' = attempts_made + 1
    /\ pauses' = pauses_made
    /\ pc' = "fetched"
    /\ stage' = "html"
    /\ doc' = d
    /\ UNCHANGED <<store, now, ticks, seen, op, markTime, savedMark, job>>
    /\ UNCHANGED <<all_urls, new_urls, idx, delays, jobs, marked, saves, runs>>

\* The rest of one iteration of the loop over urls_to_scrape, r being what
\* scrape_job_page(url) came to: the record kept and its URL marked, the delay.
Iteration(url, r) ==
    /\ job' = r.job
    /\ IF r.exc # "none"
       THEN /\ pc' = "raised"
            /\ stage' = "raised"
            /\ UNCHANGED <<store, seen, markTime, idx, delays, jobs, marked>>
       ELSE /\ stage' = IF r.kind = "record" THEN "returned" ELSE "none"
            /\ IF Usable(r)
               THEN /\ jobs' = Append(jobs, r.job)
                    /\ seen' = mark_seen(seen, url, now)
                    /\ store' = file_after_mark(store, seen')
                    /\ markTime' = [u \in DOMAIN markTime |->
                                        IF u = url THEN now ELSE markTime[u]]
                    /\ marked' = Append(marked, url)
               ELSE UNCHANGED <<jobs, seen, store, markTime, marked>>
            /\ delays' = delays + 1
            /\ idx' = idx + 1
            /\ pc' = IF idx = Len(urls_to_scrape) THEN "save" ELSE "fetch"

ScrapePage ==
    /\ pc = "fetched"
    /\ Iteration(urls_to_scrape[idx],
                 scrape_job_page(urls_to_scrape[idx], stage = "html", doc))
    /\ UNCHANGED <<now, ticks, op, savedMark, doc>>
    /\ UNCHANGED <<all_urls, new_urls, attempt, pauses, saves, runs>>

\* seen_tracker.save(), then the function returns the records.
SaveSeen ==
    /\ pc = "save"
    /\ store' = save(seen)
    /\ saves' = saves + 1
    /\ savedMark' = [u \in Urls |->
                        IF markTime[u] # NoTime THEN markTime[u] ELSE savedMark[u]]
    /\ pc' = "done"
    /\ UNCHANGED <<now, ticks, seen, op, markTime, pageVars>>
    /\ UNCHANGED <<all_urls, new_urls, idx, attempt, pauses, delays, jobs, marked, runs>>

\* The process ends: the function returned, or an exception went up.
Finish ==
    /\ pc \in {"done", "raised"}
    /\ pc' = "absent"
    /\ seen' = EmptyMap
    /\ markTime' = NoMarks
    /\ doc' = NoDoc
    /\ job' = None.job
    /\ stage' = "idle"
    /\ RunReset
    /\ UNCHANGED <<store, now, ticks, op, savedMark, runs>>

\* Time passes between two runs.
Wait(d) ==
    /\ pc = "absent"
    /\ ticks < MaxTicks
    /\ now' = now + d
    /\ ticks' = ticks + 1
    /\ UNCHANGED <<store, pc, seen, op, markTime, savedMark, pageVars, runVars>>

Next ==
    \/ Start
    \/ \E urls \in Listings : Collect(urls)
    \/ FetchFail
    \/ \E d \in RunDocs : FetchOk(d)
    \/ ScrapePage
    \/ SaveSeen
    \/ Finish
    \/ \E d \in TickSteps : Wait(d)

Spec == Init /\ [][Next]_vars

\* The process is sequential: while a step of it can be taken, one is taken.
FairSpec == Spec /\ WF_vars(Next)

(* Runs over a listing longer than MAX_JOBS *)

\* The n-th job URL of a long listing.
BatchUrl(n) == <<"jobs", <<"m", "o", "g", "a", "d", "i", "s", "c", "i", "o">>, ToString(1000 + n), "driver">>

\* A listing of MAX_JOBS + 2 URLs without repeats: a URL an earlier run may
\* have saved, then MAX_JOBS + 1 others.
LongListing == <<U2>> \o [n \in 1..(MAX_JOBS + 1) |-> BatchUrl(n)]

\* The runs follow one another at once; every page is a complete posting, and
\* only the first URL of a run may fail to be fetched.
BatchNext ==
    \/ Start
    \/ Collect(LongListing)
    \/ idx = 1 /\ FetchFail
    \/ FetchOk(Doc(LdComplete, RawNone, <<>>, <<>>))
    \/ ScrapePage
    \/ SaveSeen
    \/ Finish

SpecBatch == Init /\ [][BatchNext]_vars
--------------------------------------------------------------------------
(* The pure text functions, each applied to inputs of bounded length *)

MaxHexLen == 4
MaxTextLen == 6
MaxMixedLen == 3

HexDigits == <<"0", "1", "2", "3", "4", "5", "6", "7", "8", "9", "a", "b", "c", "d", "e", "f">>

\* int(s, 16) for a slice s of at most two characters without "-", "_" or "x":
\* surrounding whitespace and a leading "+" are accepted, then every character
\* must be a hexadecimal digit and there must be one at least.  -1 stands for
\* the ValueError.
ParseHex(s) ==
    LET t == Strip(s)
        u == Lower(IF t # <<>> /\ Head(t) = "+" THEN Tail(t) ELSE t)
        digit(c) == CHOOSE k \in 1..Len(HexDigits) : HexDigits[k] = c
        ok == u # <<>> /\ \A i \in 1..Len(u) : \E k \in 1..Len(HexDigits) : HexDigits[k] = u[i]
    IN  IF ~ok THEN -1
        ELSE IF Len(u) = 1 THEN digit(u[1]) - 1
        ELSE 16 * (digit(u[1]) - 1) + digit(u[2]) - 1

\* a ^ b for naturals
RECURSIVE Xor(_, _)
Xor(a, b) ==
    IF a = 0 /\ b = 0 THEN 0
    ELSE (((a % 2) + (b % 2)) % 2) + 2 * Xor(a \div 2, b \div 2)

\* decode_cf_email: the code points of the decoded characters; the ValueError
\* of int() is caught and gives ''.
decode_cf_email(encoded) ==
    LET key == ParseHex(SubSeq(encoded, 1, IF Len(encoded) < 2 THEN Len(encoded) ELSE 2))
        starts == {i \in 3..Len(encoded) : i % 2 = 1}
        chunk(i) == ParseHex(SubSeq(encoded, i, IF i < Len(encoded) THEN i + 1 ELSE i))
    IN  IF key = -1 \/ \E i \in starts : chunk(i) = -1 THEN <<>>
        ELSE [k \in 1..Cardinality(starts) |-> Xor(chunk(2 * k + 1), key)]

\* Every string of at most n characters of the alphabet.
Strings(alphabet, n) == UNION {[1..k -> alphabet] : k \in 0..n}

\* The data-cfemail values tried: hexadecimal digits, a letter that is none, a sign.
Encoded == Strings({"4", "a", "b", "g", "+"}, MaxHexLen)

\* The texts tried: words, blanks and newlines; shorter ones with tabs and the
\* artifact characters; the e-mail placeholder Cloudflare leaves.
Texts ==
    Strings({"a", " ", "\n"}, MaxTextLen)
    \cup Strings({"a", " ", "\t", "\n", "nbsp", "Acirc", "middot"}, MaxMixedLen)
    \cup { <<"[", "e", "m", "a", "i", "l", " ", "p", "r", "o", "t", "e", "c", "t", "e", "d", "]">>, <<"m", "a", "i", "l", " ", "[", "E", "M", "A", "I", "L", " ", " ", "P", "r", "o", "t", "e", "c", "t", "e", "d", "]", " ", "n", "o", "w">> }

TextInit ==
    /\ store = [kind |-> "missing", data |-> EmptyMap]
    /\ now = StartTime
    /\ ticks = 0
    /\ pc = "absent"
    /\ seen = EmptyMap
    /\ op \in {Call("encoded", x, <<>>, FALSE, "none") : x \in Encoded}
              \cup {Call("text", x, <<>>, FALSE, "none") : x \in Texts}
    /\ markTime = NoMarks
    /\ savedMark = NoMarks
    /\ PageIdle
    /\ RunIdle

DecodeCfEmail ==
    /\ op.name = "encoded"
    /\ op' = Call("decode_cf_email", op.arg, decode_cf_email(op.arg), FALSE, "none")
    /\ UNCHANGED <<store, now, ticks, pc, seen, markTime, savedMark, pageVars, runVars>>

CleanText ==
    /\ op.name = "text"
    /\ op' = Call("clean_text", op.arg, clean_text(op.arg), FALSE, "none")
    /\ UNCHANGED <<store, now, ticks, pc, seen, markTime, savedMark, pageVars, runVars>>

\* clean_text applied to what clean_text returned.
CleanTextAgain ==
    /\ op.name = "clean_text"
    /\ op' = Call("clean_text_again", op.ret, clean_text(op.ret), FALSE, "none")
    /\ UNCHANGED <<store, now, ticks, pc, seen, markTime, savedMark, pageVars, runVars>>

TextNext ==
    \/ DecodeCfEmail
    \/ CleanText
    \/ CleanTextAgain

SpecText == TextInit /\ [][TextNext]_vars
--------------------------------------------------------------------------
(* Claims about the tracker *)

\* The instant an ISO timestamp denotes.
Instant(ts) == ts[1] * 100 + ts[2] * 10 + ts[3]

\* ret is the subsequence of urls at the positions whose URL is not a key of m.
IsUnseenSubsequence(ret, urls, m) ==
    LET unseenAt == {j \in 1..Len(urls) : job_uid(urls[j]) \notin DOMAIN m}
    IN  /\ Len(ret) = Cardinality(unseenAt)
        /\ \E f \in [1..Len(ret) -> unseenAt] :
              /\ \A i, j \in 1..Len(ret) : i < j => f[i] < f[j]
              /\ \A i \in 1..Len(ret) : ret[i] = urls[f[i]]

\* C2: for every tracker state and every input sequence of URLs, repeated URLs
\* included, filter_new returns exactly the subsequence of the input whose
\* elements are not seen, in their original order, and leaves the mapping unchanged.
C2_FilterNewExact ==
    [][(op'.name = "filter_new" /\ FilterNew(op'.arg)) =>
          /\ seen' = seen
          /\ IsUnseenSubsequence(op'.ret, op'.arg, seen)]_vars

\* A call of filter_new on a batch that holds a seen URL and a repeated unseen one.
C2_Witness ==
    /\ op.name = "filter_new"
    /\ \E i, j, k \in 1..Len(op.arg) :
          /\ i < j
          /\ op.arg[i] = op.arg[j]
          /\ ~is_seen(seen, op.arg[i])
          /\ is_seen(seen, op.arg[k])
    /\ Len(op.ret) = 2

\* C3: a URL marked seen and then saved is reported seen, and dropped by
\* filter_new, by every tracker loaded less than 60 days after the mark.
C3_MarkSaveReload ==
    (pc = "ready" /\ op.name = "load") =>
        \A u \in Urls :
            (savedMark[u] # NoTime /\ now - savedMark[u] < RETENTION_DAYS) =>
                /\ is_seen(seen, u)
                /\ filter_new(seen, <<u>>) = <<>>

\* A reload 59 days after the mark of a URL no earlier run had stored.
C3_Witness ==
    /\ pc = "ready"
    /\ op.name = "load"
    /\ savedMark[U2] # NoTime
    /\ now - savedMark[U2] = RETENTION_DAYS - 1
    /\ savedMark[U1] # NoTime
    /\ is_seen(seen, U2)

\* C4 (as claimed): after load at time now the mapping holds exactly the persisted
\* entries whose timestamp is not before now minus 60 days, the entry exactly at
\* the cutoff included, each with its timestamp unchanged.
C4_LoadKeepsNotBeforeCutoff ==
    (pc = "ready" /\ op.name = "load" /\ store.kind = "mapping") =>
        LET kept == {k \in DOMAIN store.data :
                        Instant(store.data[k]) >= now - RETENTION_DAYS}
        IN  seen = [k \in kept |-> store.data[k]]

\* C5 (as claimed): constructing the tracker never raises; a store that is
\* missing, unreadable or malformed yields the empty mapping.
C5_LoadNeverRaises ==
    op.name = "load" =>
        /\ op.exc = "none"
        /\ pc = "ready"
        /\ (store.kind # "mapping" => seen = EmptyMap)

--------------------------------------------------------------------------
(* Claims about scrape_job_page *)

LdFields == {"title", "organization", "datePosted", "deadline", "location", "type"}

\* The record as the JSON-LD stage left it, for the document and URL at hand.
AfterLd == Method1(doc, NewJob(job.url)).job

\* The field f was set by the JSON-LD stage to a non-empty value.
SetByLd(f) == AfterLd[f] # <<>> /\ AfterLd[f] # NewJob(job.url)[f]

\* C1: in scrape_job_page, a field among title, organization, datePosted,
\* deadline, location and type that the JSON-LD stage set to a non-empty value
\* is changed by no later strategy (raw-text regex, h1 heading, company link,
\* heading sections, Job Details grid, body label scan, inline deadline).
C1_LdFieldsKept ==
    stage \in {"method2", "method3", "method4", "method5", "method6", "method7", "finalize"}
        => \A f \in LdFields : SetByLd(f) => job[f] = AfterLd[f]

\* The positions of the h2 headings that open a Job Details grid.
DetailsHeadings(d) ==
    {h \in ElementsNamed(d, "h2") : SectionKind(Lower(Strip(d.body[h].text))) = "details"}

GridFields == {"datePosted", "deadline", "sector", "location", "type", "experience"}

\* The label line i of the grid under heading h changes, on the record jb as
\* the lines before it left it, only fields that were empty.
LineWritesUnsetOnly(d, h, jb, i) ==
    \A f \in GridFields :
        GridLine(jb, GridLines(SiblingsAfter(d, h)), i)[f] # jb[f] => jb[f] = <<>>

GridWritesUnsetOnly(d, h, jb) ==
    \A i \in 1..Len(GridLines(SiblingsAfter(d, h))) :
        LineWritesUnsetOnly(d, h, GridFrom(jb, GridLines(SiblingsAfter(d, h)), 1, i - 1), i)

\* C10: when Method 5 runs, parse_job_details_section changes a field of the
\* record only if the field was still empty when its label line was matched.
C10_GridWritesUnsetOnly ==
    [][(stage = "method5" /\ stage' = "method6") =>
          \A h \in DetailsHeadings(doc) :
              GridWritesUnsetOnly(doc, h, SectionsFrom(doc, job, 1, h - 1))]_vars

\* The line is a label of the grid, with or without a trailing colon.
IsGridLabel(line) ==
    \E k \in 1..Len(GRID_LABELS) :
        Strip(Lower(line)) \in {GRID_LABELS[k][1], GRID_LABELS[k][1] \o <<":">>}

\* Line i of the grid, the record being jb when the loop reaches it: a label
\* line whose value is missing or has 100 characters or more changes nothing,
\* and a line that changes the record has a non-empty value under 100 characters.
LineRespectsCeiling(jb, lines, i) ==
    /\ (IsGridLabel(lines[i]) /\ (i = 1 \/ Strip(lines[i - 1]) = <<>> \/ Len(Strip(lines[i - 1])) >= 100))
           => GridLine(jb, lines, i) = jb
    /\ GridLine(jb, lines, i) # jb
           => (i > 1 /\ Strip(lines[i - 1]) # <<>> /\ Len(Strip(lines[i - 1])) < 100)

GridRespectsCeiling(jb, lines) ==
    \A i \in 1..Len(lines) : LineRespectsCeiling(GridFrom(jb, lines, 1, i - 1), lines, i)

\* C11: in parse_job_details_section a label line whose preceding line is
\* absent, empty or 100 characters long or longer leaves its field unchanged;
\* a value is accepted only when it is non-empty and shorter than 100
\* characters.
C11_GridValueCeiling ==
    [][(stage = "method5" /\ stage' = "method6") =>
          \A h \in DetailsHeadings(doc) :
              GridRespectsCeiling(SectionsFrom(doc, job, 1, h - 1),
                                  GridLines(SiblingsAfter(doc, h)))]_vars

\* The grid with values at the ceiling was parsed: the label on the first line
\* and the 100-character value left the location alone, the 99-character
\* value was taken as the sector.
C11_Witness ==
    /\ stage = "method6"
    /\ doc.body = BodyLong
    /\ job.location = location_from_url(job.url)
    /\ job.deadline = doc.rawDeadline
    /\ Len(job.sector) = 99

\* C15: the description of the record scrape_job_page returns has at most 3000
\* characters, whatever the sections that were concatenated.
C15_DescriptionCapped ==
    stage = "returned" => Len(job.description) <= 3000

\* The sections of the page were longer than the cap together: the description
\* returned has exactly 3000 characters.
C15_Witness ==
    /\ stage = "returned"
    /\ doc.body = BodyHuge
    /\ Len(job.qualifications) = 2000
    /\ Len(job.description) = 3000

\* C16: the type of the record scrape_job_page returns is never empty and never
\* "Organization": an empty type or the type "Organization", whichever
\* strategy supplied it, becomes "Full Time", and any other type is kept.
C16_TypeDefaulted ==
    [][(stage = "finalize" /\ stage' = "returned") =>
          /\ job'.type # <<>>
          /\ job'.type # <<"O", "r", "g", "a", "n", "i", "z", "a", "t", "i", "o", "n">>
          /\ job.type \in {<<>>, <<"O", "r", "g", "a", "n", "i", "z", "a", "t", "i", "o", "n">>} => job'.type = <<"F", "u", "l", "l", " ", "T", "i", "m", "e">>
          /\ job.type \notin {<<>>, <<"O", "r", "g", "a", "n", "i", "z", "a", "t", "i", "o", "n">>} => job'.type = job.type]_vars

\* The body label scan took "Organization" as the type: the record returned
\* has the type "Full Time".
C16_Witness ==
    /\ stage = "returned"
    /\ doc.body = BodyBlankH1
    /\ doc.ld = <<>>
    /\ Method6(doc, NewJob(job.url)).type = <<"O", "r", "g", "a", "n", "i", "z", "a", "t", "i", "o", "n">>
    /\ job.type = <<"F", "u", "l", "l", " ", "T", "i", "m", "e">>

\* The raw location values a document holds: the addressLocality of its
\* JSON-LD items and the stripped lines of its elements.
RawLocations(d) ==
    UNION {{d.ld[s].items[k].loc.locality : k \in 1..Len(d.ld[s].items)} : s \in 1..Len(d.ld)}
    \cup UNION {{Strip(l) : l \in {SplitLines(d.body[i].text)[k] :
                                     k \in 1..Len(SplitLines(d.body[i].text))}} :
                i \in 1..Len(d.body)}

\* The countries the keyword table gives for the keywords the text contains.
CountriesFor(low) ==
    {COUNTRY_MAP[k][2] : k \in {i \in 1..Len(COUNTRY_MAP) : Contains(COUNTRY_MAP[i][1], low)}}

\* C17: the country of a record scrape_job_page returns is not empty: it is a
\* country the keyword table gives for a keyword in the lowercased final
\* location, and "Somalia" when the location is empty or holds no keyword. The
\* location from the URL, and every location a strategy writes, is
\* prettify_location of the raw value; the slug "mogadiscio" alone gives the
\* location "Mogadishu" and the country "Somalia".
C17_CountryFromLocation ==
    /\ [](stage = "returned" =>
            /\ job.country # <<>>
            /\ IF CountriesFor(Lower(job.location)) = {}
               THEN job.country = <<"S", "o", "m", "a", "l", "i", "a">>
               ELSE job.country \in CountriesFor(Lower(job.location)))
    /\ [](stage = "method1" =>
            job.location = IF Len(job.url) > 2 THEN prettify_location(job.url[2]) ELSE <<>>)
    /\ [][job'.location # job.location =>
              \E raw \in RawLocations(doc) : job'.location = prettify_location(raw)]_vars
    /\ []((stage = "returned" /\ job.url = U2 /\ doc.ld = <<>> /\ doc.body = <<>>) =>
            job.location = <<"M", "o", "g", "a", "d", "i", "s", "h", "u">> /\ job.country = <<"S", "o", "m", "a", "l", "i", "a">>)

\* The page of a "mogadiscio" URL with neither structured data nor body: the
\* record has the location "Mogadishu" and the country "Somalia".
C17_Witness ==
    /\ stage = "returned"
    /\ job.url = U2
    /\ doc.ld = <<>>
    /\ doc.body = <<>>
    /\ job.location = <<"M", "o", "g", "a", "d", "i", "s", "h", "u">>
    /\ job.country = <<"S", "o", "m", "a", "l", "i", "a">>

\* C18: for a document without structured data whose body is <h1>Driver</h1>
\* and a Job Details section with the lines "Garowe", "Location", "Deadline",
\* "2025-03-15", scrape_job_page returns the title "Driver", the location
\* "Garowe", the deadline "2025-03-15" and the type "Full Time".
C18_GridScenario ==
    (stage = "returned" /\ doc = Doc(<<>>, RawNone, <<>>, BodyGrid)) =>
        /\ job.title = <<"D", "r", "i", "v", "e", "r">>
        /\ job.location = <<"G", "a", "r", "o", "w", "e">>
        /\ job.deadline = <<"2", "0", "2", "5", "-", "0", "3", "-", "1", "5">>
        /\ job.type = <<"F", "u", "l", "l", " ", "T", "i", "m", "e">>

\* The fields a fallback strategy may write, by the stage at which it runs.
FallbackFields(st) ==
    CASE st = "method2" -> {"organization", "datePosted", "deadline"}
      [] st = "method4" -> {"organization"}
      [] st = "method6" -> {"datePosted", "deadline", "sector", "location", "type", "experience"}
      [] st = "method7" -> {"deadline"}
      [] OTHER -> {}

\* The field f got its new value v from the body label scan: v is a line under
\* VALUE_CEILING characters (prettified for the location) above a label of f.
ScannedValue(d, f, v) ==
    \E i \in 2..Len(BodyLines(d)) :
        /\ \E k \in 1..Len(BODY_LABELS) :
              BODY_LABELS[k][2] = f /\ Lower(BodyLines(d)[i]) = BODY_LABELS[k][1]
        /\ Len(BodyLines(d)[i - 1]) < 100
        /\ v = IF f = "location" THEN prettify_location(BodyLines(d)[i - 1])
               ELSE BodyLines(d)[i - 1]

\* C21: the raw-text regexes, the company link, the body label scan and the
\* inline deadline regex write only their own fields and only when the field
\* is empty: a field that is not empty when one of them runs is the same
\* afterwards; the body label scan takes only values under 100 characters.
C21_FallbacksFillEmptyOnly ==
    [][(stage \in {"method2", "method4", "method6", "method7"}) =>
          \A f \in DOMAIN job :
              /\ (f \notin FallbackFields(stage) \/ job[f] # <<>>) => job'[f] = job[f]
              /\ (stage = "method6" /\ job'[f] # job[f]) => ScannedValue(doc, f, job'[f])]_vars

\* The body label scan ran on a record whose organization and location were
\* set: they are as they were, the experience level was filled in, and the
\* category value of VALUE_CEILING characters was not taken.
C21_Witness ==
    /\ stage = "method7"
    /\ doc.body = BodyBlankH1
    /\ doc.ld = LdComplete
    /\ job.location = Method5(doc, Method4(doc, Method3(doc, Method2(doc, AfterLd)))).location
    /\ job.location # <<>>
    /\ job.location # <<"K", "i", "s", "m", "a", "y", "o">>
    /\ job.experience = <<"M", "i", "d", " ", "l", "e", "v", "e", "l">>
    /\ job.sector = <<>>

\* The structured-data blocks of a document, in iteration order: the items of
\* its ld+json scripts.
RECURSIVE LdBlocks(_)
LdBlocks(scripts) ==
    IF scripts = <<>> THEN <<>> ELSE Head(scripts).items \o LdBlocks(Tail(scripts))

\* What a block supplies for the field f.
Supplied(item, f) ==
    CASE f = "title" -> item.title
      [] f = "datePosted" -> item.datePosted
      [] f = "deadline" -> item.validThrough
      [] f = "organization" -> item.org.name
      [] f = "location" -> prettify_location(item.loc.locality)
      [] f = "type" -> item.employmentType

\* The value of f after the blocks: that of the last block typed JobPosting
\* that supplies one, else the value before.
LastSupplied(blocks, f, before) ==
    LET from == {i \in 1..Len(blocks) :
                    /\ blocks[i].kind = "object"
                    /\ blocks[i].type = <<"J", "o", "b", "P", "o", "s", "t", "i", "n", "g">>
                    /\ Supplied(blocks[i], f) # <<>>}
    IN  IF from = {} THEN before
        ELSE Supplied(blocks[CHOOSE i \in from : \A j \in from : j <= i], f)

\* C22: after the structured-data stage each of title, datePosted, deadline,
\* organization, location and type holds the value of the last block typed
\* JobPosting that supplies a non-empty one; a block of another type
\* contributes nothing.
C22_LastMatchingBlockWins ==
    [][(stage = "method1" /\ stage' = "method2") =>
          \A f \in LdFields : job'[f] = LastSupplied(LdBlocks(doc.ld), f, job[f])]_vars

\* The text holds no non-breaking space, no encoding-artifact character and
\* no run of two or more spaces.
IsClean(t) ==
    /\ \A i \in 1..Len(t) : t[i] \notin {"nbsp", "Acirc"}
    /\ \A i \in 1..(Len(t) - 1) : ~(t[i] = " " /\ t[i + 1] = " ")

\* C23: in the record scrape_job_page returns, every text field other than
\* the description went through clean_text: none of title, organization,
\* location, deadline, datePosted, sector, type, experience, howToApply,
\* qualifications and responsibilities holds a non-breaking space, an
\* encoding-artifact character or a run of two or more spaces.
C23_FieldsCleaned ==
    stage = "returned" =>
        \A f \in {"title", "organization", "location", "deadline", "datePosted", "sector",
                  "type", "experience", "howToApply", "qualifications", "responsibilities"} :
            IsClean(job[f])
--------------------------------------------------------------------------
(* Claims about the runs of scrape_somalijobs *)

\* C6: mark_seen, is_seen and filter_new leave the persisted store alone: the
\* file changes in no step of a run but the save() at its end, so a run that
\* stops before it leaves the file as the previous save wrote it.
C6_StoreChangesOnlyInSave ==
    [][pc # "save" => store' = store]_vars

\* A second run marked a URL and then stopped on an exception: the file still
\* holds the timestamp the first run saved for that URL.
C6_Witness ==
    /\ pc = "raised"
    /\ runs = 2
    /\ marked # <<>>
    /\ store.kind = "mapping"
    /\ savedMark[marked[1]] # NoTime
    /\ store.data[job_uid(marked[1])] = isoformat(savedMark[marked[1]])
    /\ seen[job_uid(marked[1])] # store.data[job_uid(marked[1])]

\* C7: no failure while extracting one page halts the run: whatever the page
\* holds, the iteration ends and the run goes on to the next URL (or to the
\* save after the last one).
C7_ExtractionNeverHalts ==
    [][pc = "fetched" => (pc' \in {"fetch", "save"} /\ idx' = idx + 1)]_vars

\* C8: fetch_page makes at most 3 attempts with one pause between consecutive
\* attempts; when all fail it returns nothing, and the iteration then emits no
\* record, marks nothing and goes on to the next URL.
C8_FetchBounded ==
    /\ [](/\ attempt <= 3
          /\ stage = "fetching" => (attempt < 3 /\ pauses = attempt)
          /\ stage \in {"html", "nohtml"} => (attempt >= 1 /\ pauses = attempt - 1)
          /\ stage = "nohtml" => attempt = 3)
    /\ [][(pc = "fetched" /\ stage = "nohtml") =>
             /\ stage' = "none"
             /\ jobs' = jobs /\ marked' = marked /\ seen' = seen
             /\ idx' = idx + 1
             /\ pc' \in {"fetch", "save"}]_vars

\* Three attempts failed for the first URL, nothing was emitted or marked, and
\* the run is at the second URL.
C8_Witness ==
    /\ pc = "fetch"
    /\ stage = "none"
    /\ attempt = 3
    /\ pauses = 2
    /\ idx = 2
    /\ jobs = <<>>
    /\ seen = EmptyMap

MarkedThisRun == {u \in Urls : markTime[u] # NoTime}

\* C9: throughout a run the URLs marked seen in it are the URLs of the records
\* emitted so far, every emitted record has a non-empty title, and an
\* iteration whose page gave no record or a record with an empty title emits
\* and marks nothing.
C9_MarkedAreEmitted ==
    /\ [](/\ MarkedThisRun = {jobs[i].url : i \in 1..Len(jobs)}
          /\ Len(marked) = Len(jobs)
          /\ \A i \in 1..Len(jobs) :
                /\ marked[i] = jobs[i].url
                /\ jobs[i].title # <<>>
                /\ is_seen(seen, marked[i]))
    /\ [][(/\ pc = "fetched"
           /\ \/ stage' = "none"
              \/ stage' = "returned" /\ job'.title = <<>>)
             => (jobs' = jobs /\ marked' = marked /\ seen' = seen)]_vars

\* The first URL gave a record, the second a page whose title is blank after
\* the cleaning: one record, one mark.
C9_Witness ==
    /\ pc = "save"
    /\ stage = "returned"
    /\ job.title = <<>>
    /\ Len(new_urls) = 2
    /\ Len(jobs) = 1
    /\ marked = <<new_urls[1]>>
    /\ job.url = new_urls[2]

\* C19: every run of scrape_somalijobs that has a new URL to scrape eventually
\* calls save, exactly once, after the last URL of the batch: the run that
\* entered the loop over the URLs reaches its return with one save made.
C19_RunSavesOnce ==
    \A r \in 1..MaxRuns :
        (runs = r /\ pc = "fetch") ~> (runs = r /\ pc = "done" /\ saves = 1)

\* The mapping the tracker of the run under way loaded: the file and the clock
\* are, until the save, what they were when the tracker was constructed.
LoadedMap == _load(store, now).value

\* C20: during a run a URL whose identifier is in the loaded mapping is never
\* fetched, the loaded entries keep their timestamps, and no key leaves the
\* in-memory mapping: it only grows, by identifiers of URLs that were new when
\* the candidate list (without repeats) was filtered.
C20_LoadedEntriesKept ==
    /\ [](pc \in {"fetch", "fetched"} =>
            job_uid(urls_to_scrape[idx]) \notin DOMAIN LoadedMap)
    /\ [](pc \in {"collect", "fetch", "fetched", "save"} =>
            /\ \A k \in DOMAIN LoadedMap : k \in DOMAIN seen /\ seen[k] = LoadedMap[k]
            /\ (DOMAIN seen) \ (DOMAIN LoadedMap)
                  \subseteq {job_uid(new_urls[i]) : i \in 1..Len(new_urls)})
    /\ [][(pc # "absent" /\ pc' # "absent") =>
              \A k \in DOMAIN seen : k \in DOMAIN seen']_vars

\* The listing held a URL the tracker had loaded and a new one: the new one
\* was fetched and marked, the loaded entry is as it was loaded.
C20_Witness ==
    /\ pc = "save"
    /\ \E i \in 1..Len(all_urls) : job_uid(all_urls[i]) \in DOMAIN LoadedMap
    /\ Len(marked) = 1
    /\ job_uid(marked[1]) \notin DOMAIN LoadedMap
    /\ DOMAIN seen = DOMAIN LoadedMap \cup {job_uid(marked[1])}
    /\ \A k \in DOMAIN LoadedMap : seen[k] = LoadedMap[k]

\* The new URLs beyond the first MAX_JOBS of the filtered list.
BeyondLimit == {new_urls[i] : i \in (MAX_JOBS + 1)..Len(new_urls)}

\* The URLs the next run would report new, were it to load the file as it is.
NewNextRun == {u \in {all_urls[i] : i \in 1..Len(all_urls)} : ~is_seen(_load(store, now).value, u)}

--------------------------------------------------------------------------
(* Claims about the text functions *)

IsHexDigit(c) == \E k \in 1..Len(HexDigits) : HexDigits[k] = LowerChar(c)

\* Odd length, a character that is no hexadecimal digit, or the empty string.
Malformed(encoded) ==
    \/ encoded = <<>>
    \/ Len(encoded) % 2 = 1
    \/ \E i \in 1..Len(encoded) : ~IsHexDigit(encoded[i])

\* C12: for every malformed input (odd length, a non-hexadecimal character,
\* the empty string) decode_cf_email returns the empty string and raises
\* nothing.
C12_MalformedDecodesToEmpty ==
    (op.name = "decode_cf_email" /\ Malformed(op.arg))
        => (op.exc = "none" /\ op.ret = <<>>)

\* C13: clean_text is idempotent: applied to its own output it returns that
\* output unchanged.
C13_CleanTextIdempotent ==
    op.name = "clean_text_again" => op.ret = op.arg

\* C14: clean_text never returns a text longer than its input.
C14_CleanTextNeverLonger ==
    op.name = "clean_text" => Len(op.ret) <= Len(op.arg)

==========================================================================
